---- MODULE Spec2Model ----
(***************************************************************************)
(* Model of src/library_manager/lib_manager.c (SOF dynamic module loader): *)
(* the library ingestion pipeline (lib_manager_load_library), the module   *)
(* loader (lib_manager_load_module / lib_manager_unload_module), the       *)
(* instance allocator and the two facade operations.                       *)
(*                                                                         *)
(* Sizes are scaled: a page is PAGE_SIZE bytes, a machine word counts      *)
(* modulo WORD, the manifest unit is MAN_MAX_SIZE_V1_8 bytes.              *)
(*                                                                         *)
(* Collaborators outside the file (page-mapping driver, DMA driver, heap,  *)
(* clock controller) are the environment: every call into them that can    *)
(* fail takes its outcome from an input of the action.                     *)
(***************************************************************************)
EXTENDS Integers, Sequences, FiniteSets, TLC

\* ------------------------------------------------------------------------
\* Program constants (scaled)
\* ------------------------------------------------------------------------
PAGE_SIZE == 4                 \* CONFIG_MM_DRV_PAGE_SIZE
WORD == 256                    \* range of uint32_t, scaled: values are % WORD
MAN_MAX_SIZE_V1_8 == 8         \* one transfer unit, two pages
LIB_MANAGER_MAX_LIBS == 3      \* valid library ids are 1 .. LIB_MANAGER_MAX_LIBS-1
LIB_ID_RADIX == 16             \* 1 << LIB_MANAGER_LIB_ID_SHIFT
CLK_MAX_KCPS == 400            \* CLK_MAX_CPU_HZ / 1000
EINVAL == 22
ENOMEM == 12
ENODEV == 19
EIO == 5
EBUSY == 16                    \* the error dma_stop fails with
DRV_ERR_BASE == 100            \* the mapping driver's k-th call fails with -(100+k)

\* ------------------------------------------------------------------------
\* Bounds of the model
\* ------------------------------------------------------------------------
MaxCnt == 3                    \* allocate is not called once the counter is this high
MaxFails == 1                  \* mapping-driver calls that may fail within one facade call
MaxDrvCalls == 7               \* driver calls of one facade call that may be made to fail
MaxDepth == 3                  \* call depth at which recursion is cut (stack exhausted)
MaxInst == 1                   \* instance ids 0 .. MaxInst are requested
MaxLoadCalls == 2              \* load_library calls in one run
MaxPreloadPages == 5           \* largest preload_page_count a host image declares
MaxUnloadFails == 2            \* unmaps that may fail within one free_module call
MaxNullFrees == 1              \* unmaps of one library-code segment by unchecked frees
MaxCoreOps == 2                \* calls one core makes: a load, then the unload
MaxPollCalls == 1              \* load_library calls followed statement by statement

VARIABLES
    desc,                \* ext_lib->desc[lib_id]: 0 (NULL) or the address of the image
    mods_exec_load_cnt,  \* ext_lib->mods_exec_load_cnt
    mapped,              \* page-mapping driver: set of mapped virtual page numbers
    lc_maps,             \* history: successful map calls per library-code text segment
    lc_unmaps,           \* history: successful unmap calls per library-code text segment
    allocated,           \* caller bookkeeping: <<module_id, instance_id>> allocated and not
                         \* freed -> the <<base, size>> slice the allocation mapped
    all_ok,              \* history: no facade call has failed so far
    last,                \* history: summary of the last facade call (pre-state of a
                         \* free: when paired with the allocate before it or for a
                         \* library not ingested; drv_calls: for a library not ingested)
    heap,                \* bulk allocator: block address -> block, NoBlock when free
    dma_refs,            \* DMA driver: dma_get references held
    chan_held,           \* DMA driver: channels requested and not released
    kcps,                \* clock controller: net budget requested by the loader
    n_loads,             \* number of load_library calls made
    ll,                  \* history: summary of the last load_library call
    cores,               \* per core: the load_module / unload_module call it is in
                         \* (call stack, register) and the calls it has completed
    lp                   \* the load_library call in progress, statement by statement:
                         \* its inputs, its position and the locals of the copy loops

vars == <<desc, mods_exec_load_cnt, mapped, lc_maps, lc_unmaps, allocated, all_ok, last,
          heap, dma_refs, chan_held, kcps, n_loads, ll, cores, lp>>

modvars == <<mods_exec_load_cnt, mapped, lc_maps, lc_unmaps, allocated, all_ok, last>>
libvars == <<desc, heap, dma_refs, chan_held, kcps, n_loads, ll, lp>>

\* ------------------------------------------------------------------------
\* Segment / layout model: the module tables of the two host images
\* ------------------------------------------------------------------------
LibIds == 1 .. (LIB_MANAGER_MAX_LIBS - 1)

Seg(page, len) == [v_base_addr |-> page * PAGE_SIZE, length |-> len]

ManModule(lc, imc, t, r, b, blen) ==
    [lib_code |-> lc, instance_max_count |-> imc, entry_point |-> t * PAGE_SIZE,
     text |-> Seg(t, 1), rodata |-> Seg(r, 1), bss |-> Seg(b, blen)]

\* library 1: A, B ordinary, S library code; library 2: C ordinary, T and U library code
ModuleTable(lib) ==
    IF lib = 1
    THEN << ManModule(FALSE, 2, 1, 2, 3, 2),
            ManModule(FALSE, 1, 5, 6, 7, 1),
            ManModule(TRUE, 1, 9, 10, 11, 0) >>
    ELSE << ManModule(FALSE, 1, 12, 13, 14, 1),
            ManModule(TRUE, 1, 16, 17, 18, 0),
            ManModule(TRUE, 1, 19, 20, 21, 0) >>

LIB_MANAGER_GET_LIB_ID(module_id) == module_id \div LIB_ID_RADIX
LIB_MANAGER_GET_MODULE_INDEX(module_id) == module_id % LIB_ID_RADIX
ModuleId(lib, idx) == lib * LIB_ID_RADIX + idx

\* entry idx (0-based) of a manifest descriptor: desc + SOF_MAN_MODULE_OFFSET(idx)
ModuleEntry(fw_desc, idx) == fw_desc.modules[idx + 1]

AllModuleIds == { ModuleId(l, i) : l \in LibIds, i \in 0 .. 2 }
ModOf(module_id) ==
    ModuleTable(LIB_MANAGER_GET_LIB_ID(module_id))[LIB_MANAGER_GET_MODULE_INDEX(module_id) + 1]
OrdinaryIds == { m \in AllModuleIds : ~ModOf(m).lib_code }
LibCodeIds == { m \in AllModuleIds : ModOf(m).lib_code }
LibCodeOf(lib) == { m \in LibCodeIds : LIB_MANAGER_GET_LIB_ID(m) = lib }

\* ------------------------------------------------------------------------
\* Page-mapping driver (environment).  F is the set of call numbers, counted
\* within one facade call, that the driver fails.
\* ------------------------------------------------------------------------
Pages(va, size) == { (va \div PAGE_SIZE) + i : i \in 0 .. ((size \div PAGE_SIZE) - 1) }

LcAt(va) == { m \in LibCodeIds : ModOf(m).text.v_base_addr = va }

Bump(f, S) == [m \in DOMAIN f |-> IF m \in S THEN f[m] + 1 ELSE f[m]]

sys_mm_drv_map_region(s, F, va, size) ==
    LET k == s.n + 1 IN
    IF k \in F
    THEN [s EXCEPT !.n = k, !.ret = 0 - (DRV_ERR_BASE + k)]
    ELSE [s EXCEPT !.n = k, !.ret = 0,
                   !.mapped = @ \cup Pages(va, size),
                   !.lc_maps = Bump(@, LcAt(va))]

\* first keeps the error of the first unmap that failed in the facade call
sys_mm_drv_unmap_region(s, F, va, size) ==
    LET k == s.n + 1 IN
    IF k \in F
    THEN [s EXCEPT !.n = k, !.ret = 0 - (DRV_ERR_BASE + k),
                   !.first = IF @ = 0 THEN 0 - (DRV_ERR_BASE + k) ELSE @]
    ELSE [s EXCEPT !.n = k, !.ret = 0,
                   !.mapped = @ \ Pages(va, size),
                   !.lc_unmaps = Bump(@, LcAt(va))]

\* ------------------------------------------------------------------------
\* Module loader
\* ------------------------------------------------------------------------
\* map the region, then copy the segment from storage (memcpy_s of equal,
\* non-overlapping sizes succeeds) and write the cache back
lib_manager_load_data_from_storage(s, F, vma, size) ==
    sys_mm_drv_map_region(s, F, vma, size)

\* the err: label of lib_manager_load_module; both results are ignored
LoadModuleErr(s, F, mod) ==
    LET r == s.ret
        u1 == sys_mm_drv_unmap_region(s, F, mod.text.v_base_addr,
                                      mod.text.length * PAGE_SIZE)
        u2 == sys_mm_drv_unmap_region(u1, F, mod.rodata.v_base_addr,
                                      mod.rodata.length * PAGE_SIZE)
    IN [u2 EXCEPT !.ret = r]

RECURSIVE lib_manager_load_module(_, _, _, _, _, _)
RECURSIVE LoadLibCodeLoop(_, _, _, _, _, _, _)

\* the for loop of lib_manager_load_module from entry idx on; the recursive
\* call is handed the caller's own mod
LoadLibCodeLoop(s, F, lib_id, mod, fw_desc, idx, depth) ==
    IF idx >= fw_desc.num_module_entries
    THEN [s EXCEPT !.ret = 0]
    ELSE IF ModuleEntry(fw_desc, idx).lib_code
         THEN LET r == lib_manager_load_module(s, F, ModuleId(lib_id, idx), mod,
                                               fw_desc, depth + 1)
              IN IF r.ret < 0 \/ r.overflow
                 THEN r
                 ELSE LoadLibCodeLoop(r, F, lib_id, mod, fw_desc, idx + 1, depth)
         ELSE LoadLibCodeLoop(s, F, lib_id, mod, fw_desc, idx + 1, depth)

lib_manager_load_module(s, F, module_id, mod, fw_desc, depth) ==
    IF depth > MaxDepth
    THEN [s EXCEPT !.overflow = TRUE]
    ELSE
    LET lib_id == LIB_MANAGER_GET_LIB_ID(module_id)
        s1 == lib_manager_load_data_from_storage(s, F, mod.text.v_base_addr,
                                                 mod.text.length * PAGE_SIZE)
        s2 == lib_manager_load_data_from_storage(s1, F, mod.rodata.v_base_addr,
                                                 mod.rodata.length * PAGE_SIZE)
        s3 == IF ~mod.lib_code THEN [s2 EXCEPT !.cnt = @ + 1] ELSE s2
        s4 == IF s3.cnt = 1
              THEN LoadLibCodeLoop([s3 EXCEPT !.depth = IF depth + 1 > @ THEN depth + 1 ELSE @],
                                   F, lib_id, mod, fw_desc, 0, depth)
              ELSE s3
    IN IF s1.ret < 0 THEN LoadModuleErr(s1, F, mod)
       ELSE IF s2.ret < 0 THEN LoadModuleErr(s2, F, mod)
       ELSE IF s4.overflow THEN s4
       ELSE IF s4.ret < 0 THEN LoadModuleErr(s4, F, mod)
       ELSE [s4 EXCEPT !.ret = 0]

RECURSIVE lib_manager_unload_module(_, _, _, _, _, _)
RECURSIVE UnloadLibCodeLoop(_, _, _, _, _, _, _)

\* the for loop of lib_manager_unload_module: ret is overwritten by every call
UnloadLibCodeLoop(s, F, lib_id, mod, fw_desc, idx, depth) ==
    IF idx >= fw_desc.num_module_entries
    THEN s
    ELSE IF ModuleEntry(fw_desc, idx).lib_code
         THEN LET r == lib_manager_unload_module(s, F, ModuleId(lib_id, idx), mod,
                                                 fw_desc, depth + 1)
              IN IF r.overflow
                 THEN r
                 ELSE UnloadLibCodeLoop(r, F, lib_id, mod, fw_desc, idx + 1, depth)
         ELSE UnloadLibCodeLoop(s, F, lib_id, mod, fw_desc, idx + 1, depth)

lib_manager_unload_module(s, F, module_id, mod, fw_desc, depth) ==
    IF depth > MaxDepth
    THEN [s EXCEPT !.overflow = TRUE]
    ELSE
    LET lib_id == LIB_MANAGER_GET_LIB_ID(module_id)
        s1 == sys_mm_drv_unmap_region(s, F, mod.text.v_base_addr,
                                      mod.text.length * PAGE_SIZE)
        s2 == sys_mm_drv_unmap_region(s1, F, mod.rodata.v_base_addr,
                                      mod.rodata.length * PAGE_SIZE)
        s3 == IF ~mod.lib_code /\ s2.cnt > 0 THEN [s2 EXCEPT !.cnt = @ - 1] ELSE s2
    IN IF s1.ret < 0 THEN s1
       ELSE IF s2.ret < 0 THEN s2
       ELSE IF mod.lib_code THEN s2
       ELSE IF s3.cnt = 0
            THEN UnloadLibCodeLoop([s3 EXCEPT !.depth = IF depth + 1 > @ THEN depth + 1 ELSE @],
                                   F, lib_id, mod, fw_desc, 0, depth)
            ELSE s3

\* ------------------------------------------------------------------------
\* Instance allocator
\* ------------------------------------------------------------------------
\* faulty variant: the instance offset is not scaled by the page size
GetInstanceBssAddressUnscaled(module_id, instance_id, mod) ==
    LET instance_bss_size == mod.bss.length \div mod.instance_max_count
        inst_offset == (instance_bss_size * instance_id) % WORD
    IN (mod.bss.v_base_addr + inst_offset) % WORD

lib_manager_get_instance_bss_address(module_id, instance_id, mod) ==
    LET instance_bss_size == mod.bss.length \div mod.instance_max_count
        inst_offset == (instance_bss_size * PAGE_SIZE * instance_id) % WORD
    IN (mod.bss.v_base_addr + inst_offset) % WORD

InstanceBssSize(mod) == ((mod.bss.length \div mod.instance_max_count) * PAGE_SIZE) % WORD

\* faulty variant: a request for exactly the capacity is refused
AllocateModuleInstanceStrict(s, F, module_id, instance_id, is_pages, mod) ==
    LET bss_size == InstanceBssSize(mod)
        va_base == lib_manager_get_instance_bss_address(module_id, instance_id, mod)
    IN IF (is_pages * PAGE_SIZE) % WORD >= bss_size
       THEN [s EXCEPT !.ret = 0 - ENOMEM]
       ELSE LET m == sys_mm_drv_map_region(s, F, va_base, bss_size)
            IN IF m.ret < 0
               THEN [m EXCEPT !.ret = 0 - ENOMEM, !.bss = <<va_base, bss_size>>]
               ELSE [m EXCEPT !.ret = 0, !.bss = <<va_base, bss_size>>]

\* maps the slice and clears it; every driver error is reported as -ENOMEM
lib_manager_allocate_module_instance(s, F, module_id, instance_id, is_pages, mod) ==
    LET bss_size == InstanceBssSize(mod)
        va_base == lib_manager_get_instance_bss_address(module_id, instance_id, mod)
    IN IF (is_pages * PAGE_SIZE) % WORD > bss_size
       THEN [s EXCEPT !.ret = 0 - ENOMEM]
       ELSE LET m == sys_mm_drv_map_region(s, F, va_base, bss_size)
            IN IF m.ret < 0
               THEN [m EXCEPT !.ret = 0 - ENOMEM, !.bss = <<va_base, bss_size>>]
               ELSE [m EXCEPT !.ret = 0, !.bss = <<va_base, bss_size>>]

lib_manager_free_module_instance(s, F, module_id, instance_id, mod) ==
    LET bss_size == InstanceBssSize(mod)
        va_base == lib_manager_get_instance_bss_address(module_id, instance_id, mod)
    IN [sys_mm_drv_unmap_region(s, F, va_base, bss_size) EXCEPT !.bss = <<va_base, bss_size>>]

\* ------------------------------------------------------------------------
\* Library registry
\* ------------------------------------------------------------------------
NoBlock == [size |-> 0, data |-> <<>>]
Garbage == 0 - 1               \* a byte nobody has written

\* header fields of the manifest at the start of an image buffer
ManDesc(data) ==
    [null |-> FALSE,
     preload_page_count |-> data[1],
     num_module_entries |-> Len(ModuleTable(data[2])),
     modules |-> ModuleTable(data[2])]

NullDesc == [null |-> TRUE, preload_page_count |-> 0, num_module_entries |-> 0,
             modules |-> <<>>]

\* NULL when the library was never ingested
lib_manager_get_library_module_desc(d, h, module_id) ==
    LET lib_id == LIB_MANAGER_GET_LIB_ID(module_id)
        buffptr == d[lib_id]
    IN IF buffptr = 0 THEN NullDesc ELSE ManDesc(h[buffptr].data)

lib_manager_update_sof_ctx(c, base, lib_id) ==
    [c EXCEPT !.desc[lib_id] = base, !.trace = Append(@, "register")]

\* ------------------------------------------------------------------------
\* Facade
\* ------------------------------------------------------------------------
FailSets == { F \in SUBSET (1 .. MaxDrvCalls) : Cardinality(F) <= MaxFails }
\* the caller asks for instance ids below the module's instance_max_count
InstIds(m) == { i \in 0 .. MaxInst : i < ModOf(m).instance_max_count }
IsPagesVals == { 1, 2 }

ModState ==
    [mapped |-> mapped, cnt |-> mods_exec_load_cnt, lc_maps |-> lc_maps,
     lc_unmaps |-> lc_unmaps, n |-> 0, ret |-> 0, overflow |-> FALSE, depth |-> 0,
     bss |-> <<>>, stage |-> "desc", is_pages |-> 0, inst_mapped |-> {}, inst_cnt |-> 0,
     fault |-> FALSE, first |-> 0]

\* the state a facade call leaves and the entry point (0: failure) it returns;
\* stage names the step that ended the call, inst_mapped and inst_cnt are the
\* mappings and the counter at the call of lib_manager_allocate_module_instance
lib_manager_allocate_module(s, F, module_id, instance_id, is_pages) ==
    LET fw_desc == lib_manager_get_library_module_desc(desc, heap, module_id)
        entry_index == LIB_MANAGER_GET_MODULE_INDEX(module_id)
    IN IF fw_desc.null
       THEN [s EXCEPT !.ret = 0, !.stage = "desc"]
       ELSE LET mod == ModuleEntry(fw_desc, entry_index)
                l == lib_manager_load_module(s, F, module_id, mod, fw_desc, 1)
            IN IF l.overflow \/ l.ret < 0
               THEN [l EXCEPT !.ret = 0, !.stage = "load"]
               ELSE LET a == lib_manager_allocate_module_instance(
                                 [l EXCEPT !.is_pages = is_pages, !.inst_mapped = l.mapped,
                                           !.inst_cnt = l.cnt],
                                 F, module_id, instance_id, is_pages, mod)
                    IN IF a.ret < 0
                       THEN [a EXCEPT !.ret = 0, !.stage = "inst"]
                       ELSE [a EXCEPT !.ret = mod.entry_point, !.stage = "ok"]

\* what a read through the NULL descriptor yields: an access fault, or the
\* bytes at the low addresses, which may look like any module table
NullReads == {0} \cup LibIds

NullDeref(g) ==
    [null |-> TRUE, preload_page_count |-> 0,
     num_module_entries |-> Len(ModuleTable(g)), modules |-> ModuleTable(g)]

\* desc is used unchecked: for a library never ingested, mod and the header
\* fields are read through the NULL descriptor, with outcome g
lib_manager_free_module(s, F, module_id, instance_id, g) ==
    LET d == lib_manager_get_library_module_desc(desc, heap, module_id)
        entry_index == LIB_MANAGER_GET_MODULE_INDEX(module_id)
    IN IF d.null /\ g = 0
       THEN [s EXCEPT !.fault = TRUE, !.stage = "desc"]
       ELSE LET fw_desc == IF d.null THEN NullDeref(g) ELSE d
                mod == ModuleEntry(fw_desc, entry_index)
                u == lib_manager_unload_module([s EXCEPT !.stage = "load"], F, module_id,
                                               mod, fw_desc, 1)
            IN IF u.overflow \/ u.ret < 0
               THEN u
               ELSE [lib_manager_free_module_instance(u, F, module_id, instance_id, mod)
                        EXCEPT !.stage = "inst"]

\* ------------------------------------------------------------------------
\* Host image, bulk allocator, DMA device and clock controller (environment)
\* ------------------------------------------------------------------------
\* byte 1 declares preload_page_count, byte 2 names the module table, the
\* rest differs from offset to offset
HostImage(lib, pages) ==
    [i \in 1 .. (pages * PAGE_SIZE) |->
        IF i = 1 THEN pages ELSE IF i = 2 THEN lib ELSE 10 + i]

\* a trusted image holds at least its manifest
PreloadPages == { p \in 1 .. MaxPreloadPages : p * PAGE_SIZE >= MAN_MAX_SIZE_V1_8 }

HeapAddrs == 1 .. (MaxLoadCalls + 2)

FreeAddrs(h) == { a \in HeapAddrs : h[a] = NoBlock }

\* rballoc_align / rmalloc: 0 (NULL) when the oracle fails it
HeapAlloc(c, size, ok, ev) ==
    IF ~ok \/ FreeAddrs(c.heap) = {}
    THEN [c EXCEPT !.p = 0]
    ELSE LET a == CHOOSE x \in FreeAddrs(c.heap) : \A y \in FreeAddrs(c.heap) : x <= y
         IN [c EXCEPT !.p = a, !.trace = Append(@, ev),
                      !.heap[a] = [size |-> size, data |-> [i \in 1 .. size |-> Garbage]]]

rfree(c, a, ev) ==
    IF a = 0 THEN c
    ELSE [c EXCEPT !.heap[a] = NoBlock, !.trace = Append(@, ev)]

\* memcpy_s(dst + off, n, src, n): the first n bytes of block src
MemCopy(h, dst, off, src, n) ==
    [h EXCEPT ![dst].data = [i \in DOMAIN @ |->
        IF i > off /\ i <= off + n /\ (i - off) \in DOMAIN h[src].data
        THEN h[src].data[i - off] ELSE @[i]]]

\* the device writes the host stream into the ring at dma_addr while the ring
\* has room: everything up to byte number `upto` of the stream
DevFill(c, upto) ==
    [c EXCEPT !.heap[c.dma_addr].data = [i \in DOMAIN @ |->
        LET T == { t \in c.dev.wr .. (upto - 1) : (t % MAN_MAX_SIZE_V1_8) + 1 = i }
        IN IF T = {} THEN @[i]
           ELSE c.dev.img[(CHOOSE t \in T : \A u \in T : u <= t) + 1]],
              !.dev.wr = IF upto > @ THEN upto ELSE @]

DevLimit(c) ==
    LET room == c.dev.rd + MAN_MAX_SIZE_V1_8
    IN IF room < Len(c.dev.img) THEN room ELSE Len(c.dev.img)

dma_reload(c, n) ==
    [c EXCEPT !.dev.rd = @ + n, !.reloads = @ + 1, !.units = Append(@, n),
              !.trace = Append(@, "dma_reload")]

\* ------------------------------------------------------------------------
\* Ingestion pipeline
\* ------------------------------------------------------------------------
Stages == { "none", "dma_get", "attr", "man_alloc", "buf_alloc", "kcps", "config",
            "start", "status", "store_alloc" }

lib_manager_dma_buffer_alloc(c, fail) ==
    LET a == HeapAlloc(c, MAN_MAX_SIZE_V1_8, fail.stage # "buf_alloc", "alloc_ping")
    IN IF a.p = 0
       THEN [a EXCEPT !.dma_addr = 0, !.ret = 0 - ENOMEM]
       ELSE [a EXCEPT !.dma_addr = a.p, !.ret = 0]

\* dma_get, then dma_request_channel; the channel index is used unchecked and
\* &dma->chan[chan_index] is never NULL, so only dma_get can fail
lib_manager_dma_init(c, fail) ==
    IF fail.stage = "dma_get"
    THEN [c EXCEPT !.ret = 0 - ENODEV]
    ELSE [c EXCEPT !.dma_refs = @ + 1, !.chan_held = @ + 1, !.has_dma = TRUE,
                   !.trace = @ \o <<"dma_get", "dma_request_channel">>, !.ret = 0]

lib_manager_dma_deinit(c) ==
    IF c.has_dma
    THEN [c EXCEPT !.chan_held = @ - 1, !.dma_refs = @ - 1,
                   !.trace = @ \o <<"dma_release_channel", "dma_put">>]
    ELSE c

\* polls dma_get_status until pending_length covers size; the status call
\* of the unit the oracle names fails
lib_manager_load_data_from_host(c, size, fail) ==
    IF fail.stage = "status" /\ fail.unit = c.polls + 1
    THEN [c EXCEPT !.polls = @ + 1, !.ret = 0 - EIO]
    ELSE IF DevLimit(c) - c.dev.rd < size
         THEN [c EXCEPT !.polls = @ + 1, !.hang = TRUE]
         ELSE [DevFill(c, DevLimit(c)) EXCEPT !.polls = @ + 1, !.ret = 0]

RECURSIVE StoreDataLoop(_, _, _, _, _, _)
StoreDataLoop(c, dst, off, dst_size, copied_bytes, fail) ==
    IF copied_bytes >= dst_size
    THEN [c EXCEPT !.ret = 0]
    ELSE LET bytes_to_copy == IF dst_size - copied_bytes > MAN_MAX_SIZE_V1_8
                              THEN MAN_MAX_SIZE_V1_8
                              ELSE dst_size - copied_bytes
             h == lib_manager_load_data_from_host(c, bytes_to_copy, fail)
         IN IF h.ret < 0 \/ h.hang
            THEN h
            ELSE LET cp == [h EXCEPT !.heap = MemCopy(@, dst, off + copied_bytes,
                                                      h.dma_addr, bytes_to_copy)]
                 IN StoreDataLoop(dma_reload(cp, bytes_to_copy), dst, off, dst_size,
                                  copied_bytes + bytes_to_copy, fail)

\* faulty variant: every unit is copied to the start of the destination
RECURSIVE StoreDataLoopNoAdvance(_, _, _, _, _, _)
StoreDataLoopNoAdvance(c, dst, off, dst_size, copied_bytes, fail) ==
    IF copied_bytes >= dst_size
    THEN [c EXCEPT !.ret = 0]
    ELSE LET bytes_to_copy == IF dst_size - copied_bytes > MAN_MAX_SIZE_V1_8
                              THEN MAN_MAX_SIZE_V1_8
                              ELSE dst_size - copied_bytes
             h == lib_manager_load_data_from_host(c, bytes_to_copy, fail)
         IN IF h.ret < 0 \/ h.hang
            THEN h
            ELSE LET cp == [h EXCEPT !.heap = MemCopy(@, dst, off, h.dma_addr,
                                                      bytes_to_copy)]
                 IN StoreDataLoopNoAdvance(dma_reload(cp, bytes_to_copy), dst, off,
                                           dst_size, copied_bytes + bytes_to_copy, fail)

StoreDataNoAdvance(c, dst, off, dst_size, fail) ==
    StoreDataLoopNoAdvance(c, dst, off, dst_size, 0, fail)

\* dst_addr is block dst at offset off
lib_manager_store_data(c, dst, off, dst_size, fail) ==
    StoreDataLoop(c, dst, off, dst_size, 0, fail)

lib_manager_allocate_store_mem(c, size, fail) ==
    HeapAlloc(c, size, fail.stage # "store_alloc", "alloc_store")

\* faulty variant: the storage is kept when the remainder transfer fails
StoreLibraryNoFree(c, man_buffer, lib_id, fail) ==
    LET man_desc == ManDesc(c.heap[man_buffer].data)
        preload_size == (man_desc.preload_page_count * PAGE_SIZE) % WORD
        a == lib_manager_allocate_store_mem(c, preload_size, fail)
        library_base_address == a.p
    IN IF library_base_address = 0
       THEN [a EXCEPT !.ret = 0 - ENOMEM]
       ELSE LET m == [a EXCEPT !.heap = MemCopy(@, library_base_address, 0, man_buffer,
                                                MAN_MAX_SIZE_V1_8),
                               !.store = library_base_address]
                r == lib_manager_store_data(m, library_base_address, MAN_MAX_SIZE_V1_8,
                                            (preload_size - MAN_MAX_SIZE_V1_8) % WORD, fail)
            IN IF r.hang \/ r.ret < 0 THEN r
               ELSE [lib_manager_update_sof_ctx(r, library_base_address, lib_id)
                        EXCEPT !.ret = 0]

\* faulty variant: the registry is updated before the remainder is transferred
StoreLibraryRegisterFirst(c, man_buffer, lib_id, fail) ==
    LET man_desc == ManDesc(c.heap[man_buffer].data)
        preload_size == (man_desc.preload_page_count * PAGE_SIZE) % WORD
        a == lib_manager_allocate_store_mem(c, preload_size, fail)
        library_base_address == a.p
    IN IF library_base_address = 0
       THEN [a EXCEPT !.ret = 0 - ENOMEM]
       ELSE LET m == [a EXCEPT !.heap = MemCopy(@, library_base_address, 0, man_buffer,
                                                MAN_MAX_SIZE_V1_8),
                               !.store = library_base_address]
                u == lib_manager_update_sof_ctx(m, library_base_address, lib_id)
                r == lib_manager_store_data(u, library_base_address, MAN_MAX_SIZE_V1_8,
                                            (preload_size - MAN_MAX_SIZE_V1_8) % WORD, fail)
            IN IF r.hang THEN r
               ELSE IF r.ret < 0
               THEN [rfree(r, library_base_address, "free_store") EXCEPT !.ret = r.ret]
               ELSE [r EXCEPT !.ret = 0]

lib_manager_store_library(c, man_buffer, lib_id, fail) ==
    LET man_desc == ManDesc(c.heap[man_buffer].data)
        preload_size == (man_desc.preload_page_count * PAGE_SIZE) % WORD
        a == lib_manager_allocate_store_mem(c, preload_size, fail)
        library_base_address == a.p
    IN IF library_base_address = 0
       THEN [a EXCEPT !.ret = 0 - ENOMEM]
       ELSE LET m == [a EXCEPT !.heap = MemCopy(@, library_base_address, 0, man_buffer,
                                                MAN_MAX_SIZE_V1_8),
                               !.store = library_base_address]
                r == lib_manager_store_data(m, library_base_address, MAN_MAX_SIZE_V1_8,
                                            (preload_size - MAN_MAX_SIZE_V1_8) % WORD, fail)
            IN IF r.hang THEN r
               ELSE IF r.ret < 0
               THEN [rfree(r, library_base_address, "free_store") EXCEPT !.ret = r.ret]
               ELSE [lib_manager_update_sof_ctx(r, library_base_address, lib_id)
                        EXCEPT !.ret = 0]

\* faulty variant: a stop failure replaces an earlier error
DmaStopOverwrite(c, stop_fail) ==
    LET t == [c EXCEPT !.trace = Append(@, "dma_stop")]
    IN IF stop_fail
       THEN [t EXCEPT !.ret2 = 0 - EBUSY, !.ret = 0 - EBUSY]
       ELSE [t EXCEPT !.dev.started = FALSE]

\* the stop_dma label: ret2 is the result of dma_stop, kept only if ret is 0
dma_stop(c, stop_fail) ==
    LET t == [c EXCEPT !.trace = Append(@, "dma_stop")]
    IN IF stop_fail
       THEN [t EXCEPT !.ret2 = 0 - EBUSY, !.ret = IF c.ret = 0 THEN 0 - EBUSY ELSE c.ret]
       ELSE [t EXCEPT !.dev.started = FALSE]

core_kcps_adjust(c, delta, ok) ==
    IF ok
    THEN [c EXCEPT !.kcps = @ + delta,
                   !.trace = Append(@, IF delta > 0 THEN "kcps_inc" ELSE "kcps_dec")]
    ELSE c

\* the labels of lib_manager_load_library, entered at one and run to the end
StopDma == 1
KcpsRollback == 2
Cleanup == 3
EBuf == 4
EInit == 5

LoadLibraryExit(c, label, stop_fail) ==
    LET c1 == IF label <= StopDma THEN dma_stop(c, stop_fail) ELSE c
        c2 == IF label <= KcpsRollback THEN core_kcps_adjust(c1, 0 - CLK_MAX_KCPS, TRUE)
              ELSE c1
        c3 == IF label <= Cleanup THEN rfree(c2, c2.dma_addr, "free_ping") ELSE c2
        c4 == IF label <= EBuf THEN rfree(c3, c3.man_tmp_buffer, "free_man") ELSE c3
    IN lib_manager_dma_deinit(c4)

Failed(c, stage) == [c EXCEPT !.failed = IF @ = "none" THEN stage ELSE @]

\* the transfer units an image of the largest size is cut into
MaxUnits == ((MaxPreloadPages * PAGE_SIZE) \div MAN_MAX_SIZE_V1_8) + 1

Oracles == { f \in [stage : Stages, unit : 1 .. MaxUnits] :
                f.stage # "status" => f.unit = 1 }

LoadState(img) ==
    [heap |-> heap, desc |-> desc, dma_refs |-> dma_refs, chan_held |-> chan_held,
     kcps |-> kcps, trace |-> <<>>, ret |-> 0, ret2 |-> 0, p |-> 0, man_tmp_buffer |-> 0,
     dma_addr |-> 0, has_dma |-> FALSE, store |-> 0, failed |-> "none",
     dev |-> [started |-> FALSE, wr |-> 0, rd |-> 0, img |-> img],
     reloads |-> 0, units |-> <<>>, polls |-> 0, hang |-> FALSE]

dma_config(c, fail) ==
    IF fail.stage = "config"
    THEN [c EXCEPT !.ret = 0 - EINVAL]
    ELSE [c EXCEPT !.ret = 0, !.trace = Append(@, "dma_config")]

dma_start(c, fail) ==
    IF fail.stage = "start"
    THEN [c EXCEPT !.ret = 0 - EIO]
    ELSE [c EXCEPT !.ret = 0, !.dev.started = TRUE, !.trace = Append(@, "dma_start")]

\* from the manifest transfer to the end of the function
LoadLibraryTransfer(c, lib_id, fail, stop_fail) ==
    LET sd == lib_manager_store_data(c, c.man_tmp_buffer, 0, MAN_MAX_SIZE_V1_8, fail)
    IN IF sd.hang THEN sd
       ELSE IF sd.ret < 0
       THEN LoadLibraryExit(Failed(sd, "stream_manifest"), StopDma, stop_fail)
       ELSE LET sl == lib_manager_store_library(sd, sd.man_tmp_buffer, lib_id, fail)
                f == IF sl.ret = 0 - ENOMEM THEN Failed(sl, "store_alloc")
                     ELSE IF sl.ret < 0 THEN Failed(sl, "stream_rest")
                     ELSE sl
            IN IF sl.hang THEN sl
               ELSE LET e == LoadLibraryExit(f, StopDma, stop_fail)
                    IN IF e.ret < 0 THEN Failed(e, "stop") ELSE e

\* from the clock boost to the end of the function
LoadLibraryBoosted(c, lib_id, fail, stop_fail) ==
    LET k == IF fail.stage = "kcps"
             THEN [c EXCEPT !.ret = 0 - EINVAL]
             ELSE [core_kcps_adjust(c, CLK_MAX_KCPS, TRUE) EXCEPT !.ret = 0]
    IN IF k.ret < 0
       THEN LoadLibraryExit(Failed(k, "kcps"), Cleanup, stop_fail)
       ELSE LET g == dma_config(k, fail)
            IN IF g.ret < 0
               THEN LoadLibraryExit(Failed(g, "config"), KcpsRollback, stop_fail)
               ELSE LET st == dma_start(g, fail)
                    IN IF st.ret < 0
                       THEN LoadLibraryExit(Failed(st, "start"), Cleanup, stop_fail)
                       ELSE LoadLibraryTransfer(st, lib_id, fail, stop_fail)

lib_manager_load_library(c, lib_id, fail, stop_fail) ==
    IF lib_id = 0 \/ lib_id >= LIB_MANAGER_MAX_LIBS
    THEN Failed([c EXCEPT !.ret = 0 - EINVAL], "lib_id")
    ELSE LET d == lib_manager_dma_init(c, fail)
         IN IF d.ret < 0
            THEN Failed(d, "dma_get")
            ELSE IF fail.stage = "attr"
            THEN LoadLibraryExit(Failed([d EXCEPT !.ret = 0 - EINVAL], "attr"), EInit,
                                 stop_fail)
            ELSE LET m == HeapAlloc(d, MAN_MAX_SIZE_V1_8, fail.stage # "man_alloc",
                                    "alloc_man")
                 IN IF m.p = 0
                    THEN LoadLibraryExit(Failed([m EXCEPT !.ret = 0 - ENOMEM], "man_alloc"),
                                         EInit, stop_fail)
                    ELSE LET b == lib_manager_dma_buffer_alloc(
                                      [m EXCEPT !.man_tmp_buffer = m.p], fail)
                         IN IF b.ret < 0
                            THEN LoadLibraryExit(Failed(b, "buf_alloc"), EBuf, stop_fail)
                            ELSE LoadLibraryBoosted(b, lib_id, fail, stop_fail)

NoLoad == [op |-> "none", ret |-> 0, ret2 |-> 0, lib_id |-> 0, pages |-> 0,
           failed |-> "none",
           trace |-> <<>>, reloads |-> 0, units |-> <<>>, store |-> 0,
           pre_desc |-> <<>>, pre_live |-> {}, pre_dma_refs |-> 0, pre_chan |-> 0,
           pre_kcps |-> 0]

Live(h) == { a \in HeapAddrs : h[a] # NoBlock }

\* the summary of a call that ended in context r
LoadSummary(r, lib_id, pages) ==
    [op |-> "load", ret |-> r.ret, ret2 |-> r.ret2, lib_id |-> lib_id, pages |-> pages,
     failed |-> r.failed, trace |-> r.trace, reloads |-> r.reloads,
     units |-> r.units, store |-> r.store, pre_desc |-> desc,
     pre_live |-> Live(heap), pre_dma_refs |-> dma_refs,
     pre_chan |-> chan_held, pre_kcps |-> kcps]

IdlePoll == [pc |-> "idle", lib_id |-> 0, pages |-> 0, fail |-> [stage |-> "none", unit |-> 1],
             stop_fail |-> FALSE, phase |-> "none", dst_size |-> 0, copied_bytes |-> 0,
             bytes_to_copy |-> 0, pending_length |-> 0, unit |-> 0, out |-> <<>>]

\* the whole call as one step; ingestion runs in the configuration phase,
\* before the first facade call
LoadLibrary(lib_id, pages, fail, stop_fail) ==
    /\ lp.pc = "idle"
    /\ last.op = "none"
    /\ n_loads < MaxLoadCalls
    /\ \E r \in { lib_manager_load_library(LoadState(HostImage(lib_id, pages)), lib_id,
                                           fail, stop_fail) } :
          /\ ~r.hang
          /\ desc' = r.desc
          /\ heap' = r.heap
          /\ dma_refs' = r.dma_refs
          /\ chan_held' = r.chan_held
          /\ kcps' = r.kcps
          /\ ll' = LoadSummary(r, lib_id, pages)
    /\ n_loads' = n_loads + 1
    /\ UNCHANGED <<modvars, cores, lp>>

\* ------------------------------------------------------------------------
\* lib_manager_load_library statement by statement through the copy loops of
\* lib_manager_store_data and the poll loop of lib_manager_load_data_from_host.
\* The oracle `fail` of the call names the stage that fails; the status call
\* of unit fail.unit fails at one of its polls.
\* ------------------------------------------------------------------------
PrefixStages == { "dma_get", "attr", "man_alloc", "buf_alloc", "kcps", "config", "start" }

\* lines 574-624: up to dma_start, nothing waits; then the manifest transfer.
\* out is what the call with these inputs will have done when it returns.
PollCall(lib_id, pages, fail, stop_fail) ==
    /\ lp.pc = "idle"
    /\ last.op = "none"
    /\ n_loads < MaxPollCalls
    /\ \E r \in { lib_manager_load_library(LoadState(HostImage(lib_id, pages)), lib_id,
                                           fail, stop_fail) } :
          /\ ~r.hang
          /\ lp' = [IdlePoll EXCEPT
                      !.lib_id = lib_id, !.pages = pages, !.fail = fail,
                      !.stop_fail = stop_fail,
                      !.pc = IF lib_id = 0 \/ lib_id >= LIB_MANAGER_MAX_LIBS
                                \/ fail.stage \in PrefixStages
                             THEN "exit" ELSE "unit",
                      !.phase = "manifest", !.dst_size = MAN_MAX_SIZE_V1_8,
                      !.out = [desc |-> r.desc, heap |-> r.heap, dma_refs |-> r.dma_refs,
                               chan_held |-> r.chan_held, kcps |-> r.kcps,
                               ll |-> LoadSummary(r, lib_id, pages)]]
    /\ UNCHANGED <<modvars, cores, desc, heap, dma_refs, chan_held, kcps, n_loads, ll>>

\* lines 471-478: the head of the unit loop; when it ends after the manifest,
\* lines 527-544 of lib_manager_store_library start the remainder transfer
UnitBegin ==
    /\ lp.pc = "unit"
    /\ lp' = IF lp.copied_bytes < lp.dst_size
             THEN [lp EXCEPT !.bytes_to_copy =
                                IF lp.dst_size - lp.copied_bytes > MAN_MAX_SIZE_V1_8
                                THEN MAN_MAX_SIZE_V1_8 ELSE lp.dst_size - lp.copied_bytes,
                             !.unit = @ + 1, !.pc = "status"]
             ELSE IF lp.phase = "manifest" /\ lp.fail.stage # "store_alloc"
             THEN [lp EXCEPT !.phase = "rest", !.copied_bytes = 0,
                             !.dst_size = (((lp.pages * PAGE_SIZE) % WORD)
                                              - MAN_MAX_SIZE_V1_8) % WORD]
             ELSE [lp EXCEPT !.pc = "exit"]
    /\ UNCHANGED <<modvars, cores, desc, heap, dma_refs, chan_held, kcps, n_loads, ll>>

\* what dma_get_status may report as pending_length for a unit of this size
PendingVals(size) == { 0, size - 1, size, MAN_MAX_SIZE_V1_8 }

\* lines 450 and 458: the device reports a pending length that covers the unit
\* (the oracle says which of the two events ends the poll of a unit)
GetStatusCovers ==
    /\ lp.pc = "status"
    /\ ~(lp.fail.stage = "status" /\ lp.fail.unit = lp.unit)
    /\ \E p \in PendingVals(lp.bytes_to_copy) :
          /\ p >= lp.bytes_to_copy
          /\ lp' = [lp EXCEPT !.pending_length = p, !.pc = "test"]
    /\ UNCHANGED <<modvars, cores, desc, heap, dma_refs, chan_held, kcps, n_loads, ll>>

\* ... or one that does not
GetStatusShort ==
    /\ lp.pc = "status"
    /\ \E p \in PendingVals(lp.bytes_to_copy) :
          /\ p < lp.bytes_to_copy
          /\ lp' = [lp EXCEPT !.pending_length = p, !.pc = "test"]
    /\ UNCHANGED <<modvars, cores, desc, heap, dma_refs, chan_held, kcps, n_loads, ll>>

\* lines 451-452 and 459-460: dma_get_status fails, the error goes up to
\* lib_manager_load_library
GetStatusError ==
    /\ lp.pc = "status"
    /\ lp.fail.stage = "status" /\ lp.fail.unit = lp.unit
    /\ lp' = [lp EXCEPT !.pc = "exit"]
    /\ UNCHANGED <<modvars, cores, desc, heap, dma_refs, chan_held, kcps, n_loads, ll>>

\* faulty variant: the poll loop never ends
PollAgainAlways(pending_length, size) == TRUE

\* line 455: the condition of the poll loop
PollAgain(pending_length, size) == pending_length < size

PollTest ==
    /\ lp.pc = "test"
    /\ lp' = [lp EXCEPT !.pc = IF PollAgain(lp.pending_length, lp.bytes_to_copy)
                               THEN "sleep" ELSE "copy"]
    /\ UNCHANGED <<modvars, cores, desc, heap, dma_refs, chan_held, kcps, n_loads, ll>>

\* line 456: k_usleep returns
PollSleep ==
    /\ lp.pc = "sleep"
    /\ lp' = [lp EXCEPT !.pc = "status"]
    /\ UNCHANGED <<modvars, cores, desc, heap, dma_refs, chan_held, kcps, n_loads, ll>>

\* lines 483-487: copy the unit and re-arm the channel
UnitCopy ==
    /\ lp.pc = "copy"
    /\ lp' = [lp EXCEPT !.copied_bytes = @ + lp.bytes_to_copy, !.pc = "unit"]
    /\ UNCHANGED <<modvars, cores, desc, heap, dma_refs, chan_held, kcps, n_loads, ll>>

\* lines 635-654: the exit labels; the call returns
PollReturn ==
    /\ lp.pc = "exit"
    /\ desc' = lp.out.desc
    /\ heap' = lp.out.heap
    /\ dma_refs' = lp.out.dma_refs
    /\ chan_held' = lp.out.chan_held
    /\ kcps' = lp.out.kcps
    /\ ll' = lp.out.ll
    /\ n_loads' = n_loads + 1
    /\ lp' = IdlePoll
    /\ UNCHANGED <<modvars, cores>>

NoCall == [op |-> "none", module_id |-> 0, instance_id |-> 0, ret |-> 0,
           pre_mapped |-> {}, pre_cnt |-> 0, pair |-> FALSE, bss |-> <<>>,
           alloc_bss |-> <<>>, overflow |-> FALSE, depth |-> 0,
           stage |-> "desc", is_pages |-> 0, inst_mapped |-> {}, inst_cnt |-> 0,
           fault |-> FALSE, drv_calls |-> 0, first_err |-> 0]

AllocateModule(module_id, instance_id, is_pages, F) ==
    /\ ~last.overflow /\ ~last.fault
    /\ <<module_id, instance_id>> \notin DOMAIN allocated
    /\ mods_exec_load_cnt < MaxCnt
    /\ \E r \in { lib_manager_allocate_module(ModState, F, module_id, instance_id,
                                              is_pages) } :
          /\ mapped' = r.mapped
          /\ mods_exec_load_cnt' = r.cnt
          /\ lc_maps' = r.lc_maps
          /\ lc_unmaps' = r.lc_unmaps
          /\ allocated' = IF r.ret # 0
                          THEN [p \in DOMAIN allocated \cup {<<module_id, instance_id>>} |->
                                  IF p = <<module_id, instance_id>> THEN r.bss
                                  ELSE allocated[p]]
                          ELSE allocated
          /\ all_ok' = (all_ok /\ r.ret # 0)
          /\ last' = [op |-> "allocate", module_id |-> module_id,
                      instance_id |-> instance_id, ret |-> r.ret,
                      pre_mapped |-> mapped, pre_cnt |-> mods_exec_load_cnt,
                      pair |-> FALSE, bss |-> r.bss, alloc_bss |-> r.bss,
                      overflow |-> r.overflow, depth |-> r.depth,
                      stage |-> r.stage, is_pages |-> r.is_pages,
                      inst_mapped |-> r.inst_mapped, inst_cnt |-> r.inst_cnt,
                      fault |-> r.fault,
                      drv_calls |-> IF desc[LIB_MANAGER_GET_LIB_ID(module_id)] = 0
                                    THEN r.n ELSE 0,
                      first_err |-> 0]
    /\ ll' = NoLoad
    /\ UNCHANGED <<desc, heap, dma_refs, chan_held, kcps, n_loads, cores, lp>>

\* the caller frees what it allocated; a free for a library that was never
\* ingested is a request the caller did not check
FreeModule(module_id, instance_id, F, g) ==
    /\ ~last.overflow /\ ~last.fault
    /\ \/ <<module_id, instance_id>> \in DOMAIN allocated
       \/ desc[LIB_MANAGER_GET_LIB_ID(module_id)] = 0
    /\ \E r \in { lib_manager_free_module(ModState, F, module_id, instance_id, g) },
          pr \in { /\ last.op = "allocate" /\ last.ret # 0
                   /\ last.module_id = module_id /\ last.instance_id = instance_id },
          ni \in { desc[LIB_MANAGER_GET_LIB_ID(module_id)] = 0 } :
          /\ mapped' = r.mapped
          /\ mods_exec_load_cnt' = r.cnt
          /\ lc_maps' = r.lc_maps
          /\ lc_unmaps' = r.lc_unmaps
          /\ allocated' = IF r.ret = 0 /\ ~r.overflow /\ ~r.fault
                          THEN [p \in DOMAIN allocated \ {<<module_id, instance_id>>} |->
                                  allocated[p]]
                          ELSE allocated
          /\ all_ok' = (all_ok /\ r.ret = 0 /\ ~r.overflow /\ ~r.fault)
          /\ last' = [op |-> "free", module_id |-> module_id,
                      instance_id |-> instance_id, ret |-> r.ret,
                      pre_mapped |-> IF pr THEN last.pre_mapped
                                     ELSE IF ni THEN mapped ELSE {},
                      pre_cnt |-> IF pr THEN last.pre_cnt
                                  ELSE IF ni THEN mods_exec_load_cnt ELSE 0,
                      pair |-> pr, bss |-> r.bss,
                      alloc_bss |-> IF <<module_id, instance_id>> \in DOMAIN allocated
                                    THEN allocated[<<module_id, instance_id>>] ELSE <<>>,
                      overflow |-> r.overflow, depth |-> r.depth,
                      stage |-> r.stage, is_pages |-> 0, inst_mapped |-> {},
                      inst_cnt |-> 0, fault |-> r.fault,
                      drv_calls |-> IF ni THEN r.n ELSE 0,
                      first_err |-> r.first]
    /\ ll' = NoLoad
    /\ UNCHANGED <<desc, heap, dma_refs, chan_held, kcps, n_loads, cores, lp>>

\* ------------------------------------------------------------------------
\* lib_manager_load_module and lib_manager_unload_module statement by
\* statement, run by two cores on the shared ext_library; the mapping driver
\* succeeds.  A frame holds the position, the module_id and mod arguments and
\* the loop index; reg is the register a counter update goes through.
\* ------------------------------------------------------------------------
Cores == {1, 2}

IdleCore == [op |-> "idle", stack |-> <<>>, reg |-> 0, done |-> <<>>]

Frame(module_id, mod_id) == [pc |-> "text", id |-> module_id, mod |-> mod_id, idx |-> 0]

Top(c) == cores[c].stack[Len(cores[c].stack)]

SetTop(c, f) == [cores EXCEPT ![c].stack[Len(cores[c].stack)] = f]

Running(c, op, pc) ==
    /\ cores[c].op = op
    /\ cores[c].stack # <<>>
    /\ Top(c).pc = pc

\* the facade has looked up desc and calls lib_manager_load_module
StartLoad(c, m) ==
    /\ cores[c].op = "idle" /\ cores[c].done = <<>>
    /\ desc[LIB_MANAGER_GET_LIB_ID(m)] # 0
    /\ \A k \in Cores : k # c => \A i \in 1 .. Len(cores[k].done) : cores[k].done[i][2] # m
    /\ \A k \in Cores : k # c => (cores[k].stack # <<>> => cores[k].stack[1].id # m)
    /\ cores' = [cores EXCEPT ![c].op = "load", ![c].stack = << Frame(m, m) >>]
    /\ UNCHANGED <<modvars, libvars>>

\* the facade calls lib_manager_unload_module for the module it loaded
StartUnload(c) ==
    /\ cores[c].op = "idle" /\ Len(cores[c].done) = 1
    /\ Len(cores[c].done) < MaxCoreOps
    /\ cores' = [cores EXCEPT ![c].op = "unload",
                              ![c].stack = << Frame(cores[c].done[1][2], cores[c].done[1][2]) >>]
    /\ UNCHANGED <<modvars, libvars>>

\* lines 87 and 93: map and copy the text, then the rodata segment
LoadMap(c) ==
    /\ Running(c, "load", "text") \/ Running(c, "load", "rodata")
    /\ \E seg \in { IF Top(c).pc = "text" THEN ModOf(Top(c).mod).text
                     ELSE ModOf(Top(c).mod).rodata } :
       \E r \in { lib_manager_load_data_from_storage(ModState, {}, seg.v_base_addr,
                                                     seg.length * PAGE_SIZE) } :
          /\ mapped' = r.mapped
          /\ lc_maps' = r.lc_maps
    /\ cores' = SetTop(c, [Top(c) EXCEPT !.pc = IF @ = "text" THEN "rodata" ELSE "inc"])
    /\ UNCHANGED <<mods_exec_load_cnt, lc_unmaps, allocated, all_ok, last, libvars>>

\* lines 101-102: the counter is read ...
LoadIncRead(c) ==
    /\ Running(c, "load", "inc")
    /\ cores' = IF ModOf(Top(c).mod).lib_code
                THEN SetTop(c, [Top(c) EXCEPT !.pc = "check"])
                ELSE [SetTop(c, [Top(c) EXCEPT !.pc = "store"])
                         EXCEPT ![c].reg = mods_exec_load_cnt]
    /\ UNCHANGED <<modvars, libvars>>

\* ... and written back incremented
LoadIncWrite(c) ==
    /\ Running(c, "load", "store")
    /\ mods_exec_load_cnt' = cores[c].reg + 1
    /\ cores' = SetTop(c, [Top(c) EXCEPT !.pc = "check"])
    /\ UNCHANGED <<mapped, lc_maps, lc_unmaps, allocated, all_ok, last, libvars>>

\* line 104
LoadCheck(c) ==
    /\ Running(c, "load", "check")
    /\ cores' = SetTop(c, [Top(c) EXCEPT !.pc = IF mods_exec_load_cnt = 1 THEN "loop"
                                                ELSE "ret"])
    /\ UNCHANGED <<modvars, libvars>>

\* lines 107-115 and 163-170: one turn of the loop over the module table; the
\* recursive call is handed the caller's mod
LibCodeLoop(c) ==
    /\ Running(c, "load", "loop") \/ Running(c, "unload", "loop")
    /\ \E fw_desc \in { lib_manager_get_library_module_desc(desc, heap, Top(c).id) } :
          cores' =
            IF Top(c).idx >= fw_desc.num_module_entries
            THEN SetTop(c, [Top(c) EXCEPT !.pc = "ret"])
            ELSE IF ~ModuleEntry(fw_desc, Top(c).idx).lib_code
            THEN SetTop(c, [Top(c) EXCEPT !.idx = @ + 1])
            ELSE IF Len(cores[c].stack) >= MaxDepth
            THEN [cores EXCEPT ![c].op = "overflow"]
            ELSE [cores EXCEPT ![c].stack =
                     Append(@, Frame(ModuleId(LIB_MANAGER_GET_LIB_ID(Top(c).id), Top(c).idx),
                                     Top(c).mod))]
    /\ UNCHANGED <<modvars, libvars>>

\* return 0 / return ret: back in the caller's loop, or the call is complete
Return(c) ==
    /\ Running(c, "load", "ret") \/ Running(c, "unload", "ret")
    /\ cores' =
         IF Len(cores[c].stack) = 1
         THEN [cores EXCEPT ![c].op = "idle", ![c].stack = <<>>,
                            ![c].done = Append(@, <<cores[c].op, Top(c).id>>)]
         ELSE [cores EXCEPT ![c].stack =
                  [i \in 1 .. (Len(@) - 1) |->
                      IF i = Len(@) - 1 THEN [@[i] EXCEPT !.idx = @ + 1] ELSE @[i]]]
    /\ UNCHANGED <<modvars, libvars>>

\* lines 143 and 147: unmap the text, then the rodata segment; line 154
UnloadUnmap(c) ==
    /\ Running(c, "unload", "text") \/ Running(c, "unload", "rodata")
    /\ \E seg \in { IF Top(c).pc = "text" THEN ModOf(Top(c).mod).text
                     ELSE ModOf(Top(c).mod).rodata } :
       \E r \in { sys_mm_drv_unmap_region(ModState, {}, seg.v_base_addr,
                                          seg.length * PAGE_SIZE) } :
          /\ mapped' = r.mapped
          /\ lc_unmaps' = r.lc_unmaps
    /\ cores' = SetTop(c, [Top(c) EXCEPT !.pc =
                   IF @ = "text" THEN "rodata"
                   ELSE IF ModOf(Top(c).mod).lib_code THEN "ret" ELSE "dec"])
    /\ UNCHANGED <<mods_exec_load_cnt, lc_maps, allocated, all_ok, last, libvars>>

\* lines 157-158: the counter is read and tested ...
UnloadDecRead(c) ==
    /\ Running(c, "unload", "dec")
    /\ cores' = IF mods_exec_load_cnt > 0
                THEN [SetTop(c, [Top(c) EXCEPT !.pc = "store"])
                         EXCEPT ![c].reg = mods_exec_load_cnt]
                ELSE SetTop(c, [Top(c) EXCEPT !.pc = "check"])
    /\ UNCHANGED <<modvars, libvars>>

\* ... and written back decremented
UnloadDecWrite(c) ==
    /\ Running(c, "unload", "store")
    /\ mods_exec_load_cnt' = cores[c].reg - 1
    /\ cores' = SetTop(c, [Top(c) EXCEPT !.pc = "check"])
    /\ UNCHANGED <<mapped, lc_maps, lc_unmaps, allocated, all_ok, last, libvars>>

\* line 160
UnloadCheck(c) ==
    /\ Running(c, "unload", "check")
    /\ cores' = SetTop(c, [Top(c) EXCEPT !.pc = IF mods_exec_load_cnt = 0 THEN "loop"
                                                ELSE "ret"])
    /\ UNCHANGED <<modvars, libvars>>

Init ==
    /\ cores = [c \in Cores |-> IdleCore]
    /\ lp = IdlePoll
    /\ desc = [l \in 0 .. (LIB_MANAGER_MAX_LIBS - 1) |-> 0]
    /\ mods_exec_load_cnt = 0
    /\ mapped = {}
    /\ lc_maps = [m \in LibCodeIds |-> 0]
    /\ lc_unmaps = [m \in LibCodeIds |-> 0]
    /\ allocated = <<>>
    /\ all_ok = TRUE
    /\ last = NoCall
    /\ heap = [a \in HeapAddrs |-> NoBlock]
    /\ dma_refs = 0
    /\ chan_held = 0
    /\ kcps = 0
    /\ n_loads = 0
    /\ ll = NoLoad

NoFail == [stage |-> "none", unit |-> 1]
MinPages == CHOOSE p \in PreloadPages : \A q \in PreloadPages : p <= q

\* the ingestion pipeline under every input and injected failure
NextLoad ==
    \E lib_id \in 0 .. LIB_MANAGER_MAX_LIBS, pages \in PreloadPages, fail \in Oracles,
       stop_fail \in BOOLEAN :
       LoadLibrary(lib_id, pages, fail, stop_fail)

\* the module loader and instance allocator over libraries ingested once each,
\* in the order of their ids, without failure
NextMod ==
    \/ \E lib_id \in { l \in LibIds : desc[l] = 0 /\ \A k \in LibIds : k < l => desc[k] # 0 } :
          LoadLibrary(lib_id, MinPages, NoFail, FALSE)
    \/ \E m \in OrdinaryIds : \E i \in InstIds(m), is_pages \in IsPagesVals, F \in FailSets :
          AllocateModule(m, i, is_pages, F)
    \/ \E p \in DOMAIN allocated, F \in FailSets :
          FreeModule(p[1], p[2], F, 0)

\* allocation requests the caller did not validate, with a mapping driver that
\* succeeds: instance ids up to instance_max_count and page counts up to the
\* wrap of the word; library 2 is never ingested
ArgInstIds(m) == 0 .. ModOf(m).instance_max_count
ArgPagesVals == { 1, 2, WORD \div PAGE_SIZE }

NextArg ==
    \/ desc[1] = 0 /\ LoadLibrary(1, MinPages, NoFail, FALSE)
    \/ \E m \in OrdinaryIds : \E i \in ArgInstIds(m), is_pages \in ArgPagesVals :
          AllocateModule(m, i, is_pages, {})
    \/ \E p \in DOMAIN allocated : FreeModule(p[1], p[2], {}, 0)

\* requests for modules of a library that was never ingested (library 2), with
\* a mapping driver that succeeds
NextNull ==
    \/ desc[1] = 0 /\ LoadLibrary(1, MinPages, NoFail, FALSE)
    \/ \E m \in OrdinaryIds : \E i \in InstIds(m), is_pages \in IsPagesVals :
          AllocateModule(m, i, is_pages, {})
    \/ \E p \in DOMAIN allocated : FreeModule(p[1], p[2], {}, 0)
    \/ \E m \in OrdinaryIds : \E i \in InstIds(m), g \in NullReads :
          /\ desc[LIB_MANAGER_GET_LIB_ID(m)] = 0
          /\ \A S \in LibCodeIds : lc_unmaps[S] < MaxNullFrees
          /\ FreeModule(m, i, {}, g)

\* two cores, each loading and then unloading an ordinary module of library 1
NextCores ==
    \/ desc[1] = 0 /\ LoadLibrary(1, MinPages, NoFail, FALSE)
    \/ \E c \in Cores, m \in { x \in OrdinaryIds : LIB_MANAGER_GET_LIB_ID(x) = 1 } :
          StartLoad(c, m)
    \/ \E c \in Cores :
          \/ StartUnload(c)
          \/ LoadMap(c)
          \/ LoadIncRead(c)
          \/ LoadIncWrite(c)
          \/ LoadCheck(c)
          \/ LibCodeLoop(c)
          \/ Return(c)
          \/ UnloadUnmap(c)
          \/ UnloadDecRead(c)
          \/ UnloadDecWrite(c)
          \/ UnloadCheck(c)

\* one load_library call at the grain of its polls
PollStep ==
    \/ UnitBegin
    \/ GetStatusCovers
    \/ GetStatusShort
    \/ GetStatusError
    \/ PollTest
    \/ PollSleep
    \/ UnitCopy
    \/ PollReturn

NextPoll ==
    \/ \E lib_id \in 0 .. 1, pages \in PreloadPages, fail \in Oracles, stop_fail \in BOOLEAN :
          PollCall(lib_id, pages, fail, stop_fail)
    \/ PollStep

\* frees in which up to MaxUnloadFails unmaps fail, after allocations with a
\* mapping driver that succeeds; both libraries are ingested
UnloadFailSets == { F \in SUBSET (1 .. MaxDrvCalls) : Cardinality(F) <= MaxUnloadFails }

NextUnload ==
    \/ \E lib_id \in { l \in LibIds : desc[l] = 0 /\ \A k \in LibIds : k < l => desc[k] # 0 } :
          LoadLibrary(lib_id, MinPages, NoFail, FALSE)
    \/ \E m \in OrdinaryIds : \E i \in InstIds(m), is_pages \in IsPagesVals :
          AllocateModule(m, i, is_pages, {})
    \/ \E p \in DOMAIN allocated, F \in UnloadFailSets :
          FreeModule(p[1], p[2], F, 0)

Next == NextLoad \/ NextMod \/ NextArg \/ NextNull \/ NextCores \/ NextPoll \/ NextUnload

Spec == Init /\ [][Next]_vars
SpecLoad == Init /\ [][NextLoad]_vars
SpecMod == Init /\ [][NextMod]_vars
SpecArg == Init /\ [][NextArg]_vars
SpecNull == Init /\ [][NextNull]_vars
SpecCores == Init /\ [][NextCores]_vars
SpecUnload == Init /\ [][NextUnload]_vars

\* the thread of the call is scheduled (k_usleep returns), and for each unit
\* the device eventually reports a covering pending length or a status error
SpecPoll ==
    /\ Init /\ [][NextPoll]_vars
    /\ WF_vars(PollStep)
    /\ SF_vars(GetStatusCovers \/ GetStatusError)

\* ------------------------------------------------------------------------
\* Properties
\* ------------------------------------------------------------------------
Ingested(lib) == desc[lib] # 0

SegsMapped(m) ==
    (Pages(ModOf(m).text.v_base_addr, ModOf(m).text.length * PAGE_SIZE)
       \cup Pages(ModOf(m).rodata.v_base_addr, ModOf(m).rodata.length * PAGE_SIZE))
    \subseteq mapped

SegsUnmapped(m) ==
    (Pages(ModOf(m).text.v_base_addr, ModOf(m).text.length * PAGE_SIZE)
       \cup Pages(ModOf(m).rodata.v_base_addr, ModOf(m).rodata.length * PAGE_SIZE))
    \cap mapped = {}

\* the allocations of ordinary modules of a library that are not yet freed
LoadedOf(lib) == { p \in DOMAIN allocated : LIB_MANAGER_GET_LIB_ID(p[1]) = lib }

Count(tr, e) == Cardinality({ i \in 1 .. Len(tr) : tr[i] = e })

Disjoint(a, b) == a[1] + a[2] <= b[1] \/ b[1] + b[2] <= a[1]

\* C1: while every call so far succeeded and at least one ordinary module of a
\* library is loaded, each library-code module of that library is mapped and
\* has been mapped exactly once more than unmapped; once the last ordinary
\* module is unloaded it is unmapped again, maps and unmaps being equal.
C1_SharedCodeLoadedOnce ==
    all_ok =>
      \A lib \in LibIds : \A S \in LibCodeOf(lib) :
         IF LoadedOf(lib) # {}
         THEN SegsMapped(S) /\ lc_maps[S] = lc_unmaps[S] + 1
         ELSE SegsUnmapped(S) /\ lc_maps[S] = lc_unmaps[S]

\* C2: after successful calls only, the executable-module counter equals the
\* number of ordinary module loads not yet unloaded.
C2_CounterCountsOrdinaryLoads ==
    all_ok => mods_exec_load_cnt = Cardinality(DOMAIN allocated)

\* C3: after successful calls only, an ordinary module's code and rodata are
\* mapped iff one of its allocations is not yet freed, and a library-code
\* module's are mapped iff an ordinary module of its library is loaded.
C3_MappedIffLoaded ==
    all_ok =>
      /\ \A m \in OrdinaryIds :
            IF \E p \in DOMAIN allocated : p[1] = m
            THEN SegsMapped(m) ELSE SegsUnmapped(m)
      /\ \A S \in LibCodeIds :
            IF LoadedOf(LIB_MANAGER_GET_LIB_ID(S)) # {}
            THEN SegsMapped(S) ELSE SegsUnmapped(S)

\* C3, the ordinary modules alone: the part that does not rest on the
\* library-code recursion.
C3_OrdinaryMappedIffAllocated ==
    all_ok =>
      \A m \in OrdinaryIds :
         IF \E p \in DOMAIN allocated : p[1] = m
         THEN SegsMapped(m) ELSE SegsUnmapped(m)

\* C9: a successful allocate immediately followed by the successful free of
\* the same module and instance leaves every mapping and the counter as they
\* were before the allocate.
C9_FreeInvertsAllocate ==
    (last.op = "free" /\ last.pair /\ last.ret = 0 /\ ~last.overflow) =>
       /\ mapped = last.pre_mapped
       /\ mods_exec_load_cnt = last.pre_cnt

\* the slice the claim describes for instance i of module m
SliceOf(m, i) ==
    LET per == ModOf(m).bss.length \div ModOf(m).instance_max_count
    IN << ModOf(m).bss.v_base_addr + i * per * PAGE_SIZE, per * PAGE_SIZE >>

\* C10: the scratch slices of two distinct instances of a module, as mapped by
\* allocate_instance and as unmapped by free_instance, are the slices
\* [base + i*per_instance*page, +per_instance*page) and are disjoint, and
\* free_instance unmaps exactly the slice allocate_instance mapped.
C10_SlicesDisjoint ==
    /\ \A p \in DOMAIN allocated :
          /\ allocated[p] = SliceOf(p[1], p[2])
          /\ \A q \in DOMAIN allocated :
                (p[1] = q[1] /\ p[2] # q[2]) => Disjoint(allocated[p], allocated[q])
    /\ (last.op = "free" /\ last.bss # <<>>) =>
          /\ last.bss = last.alloc_bss
          /\ \A q \in DOMAIN allocated :
                (q[1] = last.module_id /\ q[2] # last.instance_id)
                   => Disjoint(last.bss, allocated[q])

\* C10 witness: an instance was freed while another instance of the same
\* module stays allocated.
C10_Witness ==
    /\ last.op = "free" /\ last.ret = 0 /\ last.bss # <<>>
    /\ \E q \in DOMAIN allocated :
          q[1] = last.module_id /\ q[2] # last.instance_id /\ allocated[q][2] > 0

\* position of the first occurrence of event e in a trace, 0 when absent
First(tr, e) ==
    IF \E i \in 1 .. Len(tr) : tr[i] = e
    THEN CHOOSE i \in 1 .. Len(tr) : tr[i] = e /\ \A j \in 1 .. (i - 1) : tr[j] # e
    ELSE 0

\* C4: in every load_library call the clock decrease is issued as often as the
\* boost was granted, and the net clock budget of the call is zero.
C4_BoostReleased ==
    ll.op = "load" =>
       /\ Count(ll.trace, "kcps_dec") = Count(ll.trace, "kcps_inc")
       /\ kcps = ll.pre_kcps

RollbackStages == { "dma_get", "attr", "man_alloc", "buf_alloc", "kcps", "config", "start",
                    "stream_manifest", "store_alloc", "stream_rest" }

\* C5: when load_library failed at one of its stages, the blocks that are live
\* and the DMA channels and references held are those from before the call.
C5_RollbackBuffers ==
    (ll.op = "load" /\ ll.failed \in RollbackStages) =>
       /\ ll.ret < 0
       /\ Live(heap) = ll.pre_live
       /\ chan_held = ll.pre_chan
       /\ dma_refs = ll.pre_dma_refs

\* C5 witness: the remainder transfer failed after the permanent storage had
\* been allocated, in a call made while an earlier image is resident.
C5_Witness ==
    /\ ll.op = "load" /\ ll.failed = "stream_rest" /\ ll.store # 0
    /\ ll.pre_live # {}

\* C6: every non-empty registry entry points to a live block that holds all
\* preload_page_count*page_size bytes of a host image, and within a call the
\* registry is written after the last unit was copied.
C6_RegistryComplete ==
    /\ \A lib \in DOMAIN desc :
          desc[lib] # 0 =>
             /\ lib \in LibIds
             /\ heap[desc[lib]] # NoBlock
             /\ heap[desc[lib]].size = heap[desc[lib]].data[1] * PAGE_SIZE
             /\ heap[desc[lib]].data = HostImage(lib, heap[desc[lib]].data[1])
    /\ (ll.op = "load" /\ First(ll.trace, "register") # 0) =>
          \A i \in 1 .. Len(ll.trace) :
             ll.trace[i] = "dma_reload" => i < First(ll.trace, "register")

\* C6 witness: a second ingestion of a registered library id failed in the
\* middle of the remainder transfer.
C6_Witness ==
    /\ ll.op = "load" /\ ll.failed = "stream_rest" /\ ll.reloads >= 2
    /\ ll.pre_desc[ll.lib_id] # 0

\* C7: a load_library call that returns an error leaves the registry as it was.
C7_ErrorLeavesRegistry ==
    (ll.op = "load" /\ ll.ret < 0) => desc = ll.pre_desc

\* C8: after a successful ingestion of an image of k*MAN_MAX_SIZE + r bytes,
\* 0 < r < MAN_MAX_SIZE, the permanent storage equals the host image, no unit
\* exceeded MAN_MAX_SIZE, and there was one DMA reload per unit, k + 1 in all.
C8_ChunkedCopy ==
    (ll.op = "load" /\ ll.ret = 0
       /\ (ll.pages * PAGE_SIZE) % MAN_MAX_SIZE_V1_8 # 0) =>
       /\ desc[ll.lib_id] = ll.store
       /\ heap[ll.store].data = HostImage(ll.lib_id, ll.pages)
       /\ \A i \in 1 .. Len(ll.units) : ll.units[i] <= MAN_MAX_SIZE_V1_8
       /\ ll.units[1] = MAN_MAX_SIZE_V1_8
       /\ Len(ll.units) = ll.reloads
       /\ ll.reloads = ((ll.pages * PAGE_SIZE) \div MAN_MAX_SIZE_V1_8) + 1

\* C8 witness: a successful ingestion with k >= 2 and a partial last unit.
C8_Witness ==
    /\ ll.op = "load" /\ ll.ret = 0
    /\ (ll.pages * PAGE_SIZE) % MAN_MAX_SIZE_V1_8 # 0
    /\ (ll.pages * PAGE_SIZE) \div MAN_MAX_SIZE_V1_8 >= 2

\* the per-instance capacity, in pages, of the scratch segment of module m
Capacity(m) == ModOf(m).bss.length \div ModOf(m).instance_max_count

\* C11: a scratch region handed to the mapping driver by an allocation lies
\* inside the module's scratch segment, and a request with an instance id of
\* instance_max_count or more fails without a scratch region being mapped.
C11_InstanceInsideSegment ==
    (last.op = "allocate" /\ desc[LIB_MANAGER_GET_LIB_ID(last.module_id)] # 0) =>
       /\ last.instance_id >= ModOf(last.module_id).instance_max_count =>
             last.ret = 0 /\ last.bss = <<>>
       /\ last.bss # <<>> =>
             /\ last.bss[1] >= ModOf(last.module_id).bss.v_base_addr
             /\ last.bss[1] + last.bss[2] <=
                   ModOf(last.module_id).bss.v_base_addr
                      + ModOf(last.module_id).bss.length * PAGE_SIZE

\* C12: with a mapping driver that succeeds, allocate_instance asked for
\* exactly the per-instance capacity succeeds and maps the slice; asked for
\* one page more it fails and leaves the mappings and the counter as they
\* were when it was called.
C12_BoundaryPages ==
    (last.op = "allocate" /\ last.stage \in {"inst", "ok"}) =>
       /\ last.is_pages = Capacity(last.module_id) =>
             /\ last.stage = "ok"
             /\ last.ret = ModOf(last.module_id).entry_point
             /\ Pages(last.bss[1], last.bss[2]) \subseteq mapped
       /\ last.is_pages = Capacity(last.module_id) + 1 =>
             /\ last.stage = "inst"
             /\ last.ret = 0
             /\ mapped = last.inst_mapped
             /\ mods_exec_load_cnt = last.inst_cnt

\* C12 witness: a request for one page more than the capacity was refused
\* while an earlier allocation is outstanding.
C12_Witness ==
    /\ last.op = "allocate" /\ last.stage = "inst"
    /\ last.is_pages = Capacity(last.module_id) + 1
    /\ DOMAIN allocated # {}

\* C13: an allocation succeeds only if the requested page count is at most
\* the per-instance capacity, also when its product with the page size wraps.
C13_PagesWithinCapacity ==
    (last.op = "allocate" /\ last.stage = "ok") =>
       last.is_pages <= Capacity(last.module_id)

\* C14: a facade call for a module of a library that was never ingested
\* returns a failure (allocate: no entry point, free: an error), calls the
\* mapping driver not at all, and leaves mappings and counter unchanged.
C14_NotIngestedFails ==
    (last.op \in {"allocate", "free"}
       /\ desc[LIB_MANAGER_GET_LIB_ID(last.module_id)] = 0) =>
       /\ ~last.fault /\ ~last.overflow
       /\ last.op = "allocate" => last.ret = 0
       /\ last.op = "free" => last.ret < 0
       /\ last.drv_calls = 0
       /\ mapped = last.pre_mapped
       /\ mods_exec_load_cnt = last.pre_cnt

\* a core has completed exactly the calls ops, in that order
Completed(c, ops) ==
    /\ cores[c].op = "idle"
    /\ Len(cores[c].done) = Len(ops)
    /\ \A i \in 1 .. Len(ops) : cores[c].done[i][1] = ops[i]

\* C15: two cores that loaded two different ordinary modules of one library,
\* starting from counter 0, leave the counter at 2 and each library-code
\* module mapped by exactly one map call; once both have unloaded again the
\* counter is 0 and each library-code module was unmapped exactly once; no
\* call exhausts the stack.
C15_ConcurrentFirstLoad ==
    /\ \A c \in Cores : cores[c].op # "overflow"
    /\ (\A c \in Cores : Completed(c, <<"load">>)) =>
          /\ mods_exec_load_cnt = 2
          /\ \A S \in LibCodeOf(1) : lc_maps[S] = 1 /\ SegsMapped(S)
    /\ (\A c \in Cores : Completed(c, <<"load", "unload">>)) =>
          /\ mods_exec_load_cnt = 0
          /\ \A S \in LibCodeOf(1) : lc_unmaps[S] = 1 /\ SegsUnmapped(S)

\* C16: a facade allocate whose lib_manager_load_module call returned an error
\* leaves the mapped pages and the executable-module counter as they were
\* before the call.
C16_FailedLoadRollsBack ==
    (last.op = "allocate" /\ last.stage = "load" /\ ~last.overflow) =>
       /\ mapped = last.pre_mapped
       /\ mods_exec_load_cnt = last.pre_cnt

\* C16, the counter alone.
C16_FailedLoadKeepsCounter ==
    (last.op = "allocate" /\ last.stage = "load" /\ ~last.overflow) =>
       mods_exec_load_cnt = last.pre_cnt

\* C16, the mappings alone.
C16_FailedLoadKeepsMappings ==
    (last.op = "allocate" /\ last.stage = "load" /\ ~last.overflow) =>
       mapped = last.pre_mapped

\* C17: no load_module or unload_module call exhausts the stack, and the
\* calls nest at most two deep.
C17_RecursionBounded ==
    ~last.overflow /\ last.depth <= 2

\* C17, lib_manager_load_module alone.
C17_LoadRecursionBounded ==
    last.op = "allocate" => (~last.overflow /\ last.depth <= 2)

\* C18: while every call so far succeeded and an ordinary module of another
\* library is loaded, the library-code modules of a library are mapped iff
\* one of its own ordinary modules is loaded.
C18_CounterPerLibrary ==
    all_ok =>
      \A Y \in LibIds :
         (\E X \in LibIds : X # Y /\ LoadedOf(X) # {}) =>
            \A S \in LibCodeOf(Y) :
               IF LoadedOf(Y) # {} THEN SegsMapped(S) ELSE SegsUnmapped(S)

\* C18, seen on the recursion alone: the first load of an ordinary module of
\* a library, made while another library has a module loaded, makes the
\* recursive calls for its library-code entries.
C18_FirstLoadRecurses ==
    (all_ok /\ last.op = "allocate"
       /\ LoadedOf(LIB_MANAGER_GET_LIB_ID(last.module_id))
             = {<<last.module_id, last.instance_id>>}
       /\ \E X \in LibIds : X # LIB_MANAGER_GET_LIB_ID(last.module_id) /\ LoadedOf(X) # {}) =>
       last.depth = 2

InPoll(p) == p.pc \in {"status", "test", "sleep"}

\* C19: a load_library call that was made returns; it leaves the poll loop of
\* a unit only with a pending length that covers the unit or with a status
\* error.
C19_LoadLibraryReturns ==
    /\ (lp.pc # "idle") ~> (lp.pc = "idle")
    /\ [][ (InPoll(lp) /\ ~InPoll(lp')) =>
              \/ lp'.pc = "copy" /\ lp.pending_length >= lp.bytes_to_copy
              \/ lp'.pc = "exit" /\ lp.fail.stage = "status" ]_vars

\* C19 witness: the call waits in the poll loop of a unit of the remainder.
C19_Witness ==
    lp.pc = "sleep" /\ lp.phase = "rest" /\ lp.unit >= 3

\* a trace holds the events of es, each of them after the first event e
Before(tr, e, es) ==
    \A x \in es : First(tr, x) # 0 /\ First(tr, e) < First(tr, x)

\* C20: in a load_library call that started the DMA channel, dma_stop is
\* called exactly once, before the ping buffer and the staging buffer are
\* freed and before the channel is released; the error of a failed stop is
\* returned only if no earlier stage failed.
C20_StopOnceBeforeRelease ==
    (ll.op = "load" /\ Count(ll.trace, "dma_start") = 1) =>
       /\ Count(ll.trace, "dma_stop") = 1
       /\ Before(ll.trace, "dma_stop", {"free_ping", "free_man", "dma_release_channel"})
       /\ ll.failed \in {"stream_manifest", "stream_rest"} => ll.ret = 0 - EIO
       /\ ll.failed = "store_alloc" => ll.ret = 0 - ENOMEM
       /\ ll.failed = "stop" <=> (ll.ret2 < 0 /\ ll.ret = ll.ret2)
       /\ ll.failed = "none" <=> ll.ret = 0

\* C20 witness: the remainder transfer failed and then the stop failed too.
C20_Witness ==
    /\ ll.op = "load" /\ Count(ll.trace, "dma_start") = 1
    /\ ll.failed = "stream_rest" /\ ll.ret2 < 0

\* C21: a free_module call that returns (its unload did not exhaust the
\* stack) and in which an unmap failed returns the error of the first unmap
\* that failed, also when that unmap was made by a recursive unload of a
\* library-code entry.
C21_FirstErrorReturned ==
    (last.op = "free" /\ ~last.overflow /\ ~last.fault /\ last.first_err # 0) =>
       last.ret = last.first_err

\* C21, the part that holds: a returning call in which an unmap failed
\* returns an error (not necessarily the first one).
C21_ErrorNotMasked ==
    (last.op = "free" /\ ~last.overflow /\ ~last.fault /\ last.first_err # 0) =>
       last.ret < 0
====
